---- MODULE Spec2Model ----
(***************************************************************************)
(* DishDecode: the upload -> analyze -> persist pipeline.                  *)
(*                                                                         *)
(*   app/api/analyze/route.ts  POST  (Spec)                                *)
(*   app/api/upload/route.ts   POST  (SpecUpload)                          *)
(*   Steps 5 to 8 of Analyze, every kind of reply  (SpecReply)             *)
(*   one request of each endpoint, interleaved     (SpecPipeline)          *)
(*   Analyze with the fairness of its awaits       (SpecLive)              *)
(*   Analyze when the model call never returns     (SpecModelSilent)       *)
(*   app/dashboard/page.tsx and its ImageUploader  (SpecDashboard)         *)
(*                                                                         *)
(* Every `await` of a handler is one point where the request is suspended: *)
(* a pc value "awaitX" says the call X is in flight, and the action        *)
(* XReturns draws the collaborator's outcome and runs the handler up to    *)
(* its next await (or its return).  Requests share no variable but the     *)
(* module-level model handle, the food_analyses table and the S3 bucket.   *)
(*                                                                         *)
(* Encodings.  An optional value is a sequence of length 0 or 1 (None,     *)
(* Some(v)).  A message built by a template literal is the sequence of its *)
(* pieces.  confidence_score is counted in tenths (0.7 is 7).  A JSON      *)
(* response body is a record whose domain is the set of keys present.      *)
(***************************************************************************)
EXTENDS Integers, Sequences, FiniteSets, TLC

VARIABLES
    apiKey,         \* process.env.GOOGLE_API_KEY is set
    genAI,          \* module-level client handle: "null" or "ready"
    model,          \* module-level model handle:  "null" or "ready"
    analyze,        \* analyze[r]: the locals of Analyze request r
    food_analyses,  \* the rows of the food_analyses table
    awsEnv,         \* AWS_ACCESS_KEY_ID, AWS_SECRET_ACCESS_KEY, AWS_REGION are all set
    upload,         \* upload[r]: the locals of Upload request r
    bucket,         \* the S3 bucket: key -> stored object
    issuedKeys,     \* the uuids uuidv4() has returned so far
    reply,          \* the result generateContent is about to give (SpecReply)
    renormalized,   \* Step 6 applied to a finalResult (SpecReply)
    dashboard       \* the state of the dashboard page in one browser tab

vars == <<apiKey, genAI, model, analyze, food_analyses, awsEnv, upload, bucket, issuedKeys,
          reply, renormalized, dashboard>>

analyzeVars == <<apiKey, genAI, model, analyze, food_analyses>>
uploadVars == <<awsEnv, upload, bucket, issuedKeys>>
replyVars == <<reply, renormalized>>

\* ------------------------------------------------------------- bounds
NumAnalyzeReqs == 2
NumUploadReqs == 2

AReqs == 1..NumAnalyzeReqs
UReqs == 1..NumUploadReqs

\* ------------------------------------------------------------ helpers
None == <<>>
Some(v) == <<v>>

Range(s) == {s[i] : i \in 1..Len(s)}

\* String.prototype.includes on a message kept as its pieces
Includes(msg, piece) == piece \in Range(msg)

Min(a, b) == IF a < b THEN a ELSE b
Max(a, b) == IF a > b THEN a ELSE b

\* NextResponse.json(body, {status}); the status defaults to 200
Json(body, status) == [status |-> status, body |-> body]

\* ========================================================== ANALYZE
\* ---- module-level client initialization (route.ts 36-118)
\* The constructor either returns the handles or throws; a missing key
\* leaves both handles null.
ModuleInit(keySet, ctorThrows) ==
    IF ~keySet THEN [genAI |-> "null", model |-> "null"]
    ELSE IF ctorThrows THEN [genAI |-> "null", model |-> "null"]
    ELSE [genAI |-> "ready", model |-> "ready"]

\* ---- the parsed reply / AnalysisResult (route.ts 13-34)
\* contains_food is kept as the JSON value's kind: "true", "false",
\* "absent" (or null) and "nonbool" (any other type).
Opt(S) == {None} \cup {Some(s) : s \in S}

MacroKeys == {"protein", "carbs", "fiber", "fat", "saturated_fat", "unsaturated_fat"}
NoMacros == [k \in MacroKeys |-> None]

Absent == [t |-> "absent", n |-> 0]
Num(n) == [t |-> "number", n |-> n]
NotNum == [t |-> "string", n |-> 0]

\* confidence_score bounds and defaults, in tenths
ConfMin == 0
ConfMax == 10
DefaultConfFood == 7
DefaultConfNoFood == 1

\* The objects the model's reply may denote in Spec: with a boolean
\* contains_food, and without one.
ConfInputs == {Absent, Num(-5), Num(4), Num(15)}
ObjectsWith(food, dish, conf) ==
    [contains_food : food,
     dish_name : dish,
     cuisine : {None},
     serving_size : {None},
     cooking_method : {None},
     ingredients : {None},
     portion_size : {None},
     total_calories : {None},
     macros : {None},
     portion_comparison : {None},
     allergens : {None},
     confidence_score : conf]
ValidObjects == ObjectsWith({"true", "false"}, Opt({"Pizza"}), ConfInputs)
InvalidObjects == ObjectsWith({"absent", "nonbool"}, {Some("Pizza")}, {Num(4)})
RawObjects == ValidObjects \cup InvalidObjects
SampleObjects == ObjectsWith({"true", "false"}, {Some("Pizza")}, {Num(4)})

\* mutant: the default is forgotten, an omitted string stays omitted
OrElseKeepsMissing(a, d) == a

\* a || d on an optional string: undefined, null and "" are falsy
OrElse(a, d) == IF a = None \/ a = Some("") THEN Some(d) ELSE a

\* mutant: an omitted array stays omitted
OrEmptyKeepsMissing(a) == a

\* a || [] on an optional array: every array is truthy
OrEmpty(a) == IF a = None THEN Some(<<>>) ELSE a

\* mutant: the lower bound is forgotten
ClampNoLower(x) == Min(ConfMax, x)

\* mutant: the upper bound is forgotten
ClampNoUpper(x) == Max(ConfMin, x)

\* Math.max(0, Math.min(1, x))
Clamp(x) == Max(ConfMin, Min(ConfMax, x))

\* mutant: the score is tested with `||`, so that 0 counts as missing
ConfidenceScoreFalsy(a) ==
    IF a.confidence_score.t = "number" /\ a.confidence_score.n # 0
    THEN Num(Clamp(a.confidence_score.n))
    ELSE IF a.contains_food = "true" THEN Num(DefaultConfFood)
    ELSE Num(DefaultConfNoFood)

\* Step 6 (route.ts 372-400)
ConfidenceScore(a) ==
    IF a.confidence_score.t = "number"
    THEN Num(Clamp(a.confidence_score.n))
    ELSE IF a.contains_food = "true" THEN Num(DefaultConfFood)
    ELSE Num(DefaultConfNoFood)

MacrosOf(a) ==
    Some([k \in MacroKeys |-> IF a.macros = None THEN None ELSE a.macros[1][k]])

Normalize(a) ==
    [contains_food |-> a.contains_food,
     dish_name |-> OrElse(a.dish_name,
                          IF a.contains_food = "true" THEN "Unknown Dish" ELSE "N/A"),
     cuisine |-> OrElse(a.cuisine, "Unknown"),
     serving_size |-> OrElse(a.serving_size, "N/A"),
     cooking_method |-> a.cooking_method,
     ingredients |-> OrEmpty(a.ingredients),
     portion_size |-> a.portion_size,
     total_calories |-> a.total_calories,
     macros |-> MacrosOf(a),
     portion_comparison |-> a.portion_comparison,
     allergens |-> OrEmpty(a.allergens),
     confidence_score |-> ConfidenceScore(a)]

\* JSON.stringify of an AnalysisResult: a key whose value is undefined is
\* dropped, at the top level and inside macros.
OptKeys == {"dish_name", "cuisine", "serving_size", "cooking_method", "ingredients",
            "portion_size", "total_calories", "portion_comparison", "allergens"}

MacrosJson(m) == [k \in {x \in MacroKeys : m[x] # None} |-> m[k][1]]

ToJson(a) ==
    LET keys == {"contains_food"}
                \cup {k \in OptKeys : a[k] # None}
                \cup (IF a.macros # None THEN {"macros"} ELSE {})
                \cup (IF a.confidence_score.t = "number" THEN {"confidence_score"} ELSE {})
    IN [k \in keys |->
          CASE k = "contains_food" -> (a.contains_food = "true")
            [] k = "macros" -> MacrosJson(a.macros[1])
            [] k = "confidence_score" -> a.confidence_score.n
            [] OTHER -> a[k][1]]

\* ---- the model's reply (route.ts 289-340)
\* The text part is kept as its tokens: "FENCE" for the three backquotes of
\* a code fence, a language tag, "NL" for a line break, "SP" for a blank, the
\* braces, "$" for the members of the object (the reply's members field is
\* what they denote) and "x" for text that is no JSON.
IsSpace(tok) == tok \in {"SP", "NL"}

RECURSIVE TrimLeft(_)
TrimLeft(s) == IF s # <<>> /\ IsSpace(Head(s)) THEN TrimLeft(Tail(s)) ELSE s

RECURSIVE TrimRight(_)
TrimRight(s) ==
    IF s # <<>> /\ IsSpace(s[Len(s)]) THEN TrimRight(SubSeq(s, 1, Len(s) - 1)) ELSE s

\* String.prototype.trim
Trim(s) == TrimRight(TrimLeft(s))

StartsWith(s, tok) == s # <<>> /\ Head(s) = tok
EndsWith(s, tok) == s # <<>> /\ s[Len(s)] = tok

\* indexOf / lastIndexOf, 0-based, -1 when absent
IndexOf(s, tok) ==
    IF tok \in Range(s)
    THEN (CHOOSE i \in 1..Len(s) : s[i] = tok /\ \A j \in 1..(i - 1) : s[j] # tok) - 1
    ELSE -1
LastIndexOf(s, tok) ==
    IF tok \in Range(s)
    THEN (CHOOSE i \in 1..Len(s) : s[i] = tok /\ \A j \in (i + 1)..Len(s) : s[j] # tok) - 1
    ELSE -1

\* String.prototype.substring(a, b): negative arguments count as 0,
\* arguments past the end as the length, and a > b swaps them
Substring(s, a, b) ==
    LET ca == Max(0, Min(Len(s), a))
        cb == Max(0, Min(Len(s), b))
    IN SubSeq(s, Min(ca, cb) + 1, Max(ca, cb))

\* route.ts 310-318
StripFence(raw) ==
    LET jsonString == Trim(raw)
    IN IF StartsWith(jsonString, "FENCE") /\ EndsWith(jsonString, "FENCE")
       THEN Trim(Substring(jsonString, IndexOf(jsonString, "NL") + 1,
                           LastIndexOf(jsonString, "NL")))
       ELSE jsonString

\* route.ts 319: the structural test before JSON.parse
LooksLikeObject(jsonString) == StartsWith(jsonString, "{") /\ EndsWith(jsonString, "}")

\* JSON.parse accepts an object's braces around its members, blanks allowed
\* between them, and throws on anything else.
NoSpace(s) == SelectSeq(s, LAMBDA tok : ~IsSpace(tok))
JsonParses(jsonString) == NoSpace(jsonString) \in {<<"{", "$", "}">>, <<"{", "}">>}

EmptyObject ==
    [contains_food |-> "absent", dish_name |-> None, cuisine |-> None,
     serving_size |-> None, cooking_method |-> None, ingredients |-> None,
     portion_size |-> None, total_calories |-> None, macros |-> None,
     portion_comparison |-> None, allergens |-> None, confidence_score |-> Absent]

JsonParse(jsonString, members) ==
    IF NoSpace(jsonString) = <<"{", "}">> THEN EmptyObject ELSE members

\* FinishReason values the handler tells apart; "none" is an unset field
FinishReasons == {"none", "STOP", "MAX_TOKENS", "SAFETY"}

\* texts JSON.parse accepts once the fence is stripped, and texts it does not
ObjectTexts ==
    {<<"{", "$", "}">>,
     <<"FENCE", "json", "NL", "{", "$", "}", "NL", "FENCE">>}
OtherTexts == {<<"{", "$">>, <<"{", "x", "}">>, <<"[", "$", "]">>}

PlainText == <<"{", "$", "}">>

\* What generateContent can do: throw (with some message, possibly empty)
\* or resolve to a response: without a candidate, with a candidate that has
\* no text part, or with a text part.  Every object is tried as a plain
\* reply that ended with STOP, and two of them in every other shape.
ModelOutcomes ==
    [kind : {"throws"}, message : {"", "fetch failed"}, candidate : {FALSE},
     finishReason : {"none"}, text : {None}, members : {EmptyObject}]
    \cup
    [kind : {"response"}, message : {""}, candidate : {FALSE},
     finishReason : {"none"}, text : {None}, members : {EmptyObject}]
    \cup
    [kind : {"response"}, message : {""}, candidate : {TRUE},
     finishReason : FinishReasons, text : {None} \cup {Some(t) : t \in OtherTexts},
     members : {EmptyObject}]
    \cup
    [kind : {"response"}, message : {""}, candidate : {TRUE},
     finishReason : FinishReasons, text : {Some(t) : t \in ObjectTexts},
     members : SampleObjects]
    \cup
    [kind : {"response"}, message : {""}, candidate : {TRUE},
     finishReason : {"STOP"}, text : {Some(PlainText)},
     members : RawObjects]

\* mutant: the finish reason is not looked at
ParseReplyAnyFinish(o) ==
    IF o.kind = "throws" THEN [ok |-> FALSE, message |-> <<o.message>>, value |-> EmptyObject]
    ELSE IF ~o.candidate
    THEN [ok |-> FALSE, message |-> <<"">>, value |-> EmptyObject]
    ELSE IF o.text = None \/ ~LooksLikeObject(StripFence(o.text[1]))
            \/ ~JsonParses(StripFence(o.text[1]))
            \/ JsonParse(StripFence(o.text[1]), o.members).contains_food \notin {"true", "false"}
    THEN [ok |-> FALSE, message |-> <<"AI response format error">>, value |-> EmptyObject]
    ELSE [ok |-> TRUE, message |-> <<>>,
          value |-> JsonParse(StripFence(o.text[1]), o.members)]

\* mutant: the contains_food validation is skipped
ParseReplyUnvalidated(o) ==
    IF o.kind = "throws" THEN [ok |-> FALSE, message |-> <<o.message>>, value |-> EmptyObject]
    ELSE IF ~o.candidate \/ o.finishReason \notin {"none", "STOP", "MAX_TOKENS"}
    THEN [ok |-> FALSE, message |-> <<"">>, value |-> EmptyObject]
    ELSE IF o.text = None \/ ~LooksLikeObject(StripFence(o.text[1]))
            \/ ~JsonParses(StripFence(o.text[1]))
    THEN [ok |-> FALSE, message |-> <<"AI response format error">>, value |-> EmptyObject]
    ELSE [ok |-> TRUE, message |-> <<>>,
          value |-> JsonParse(StripFence(o.text[1]), o.members)]

\* Step 5's try block: the error thrown, or the parsed and validated reply.
\* [ok |-> TRUE, value |-> analysisResult] or [ok |-> FALSE, message |-> m]
Thrown(m) == [ok |-> FALSE, message |-> m, value |-> EmptyObject]
Parsed(v) == [ok |-> TRUE, message |-> <<>>, value |-> v]

ParseReply(o) ==
    IF o.kind = "throws" THEN Thrown(<<o.message>>)
    ELSE IF ~o.candidate THEN Thrown(<<"">>)
    ELSE IF o.finishReason \notin {"none", "STOP", "MAX_TOKENS"} THEN Thrown(<<"">>)
    ELSE IF o.text = None \/ o.text = Some(<<>>)
    THEN Thrown(<<"AI analysis failed: Response format unexpected (missing text content).">>)
    ELSE LET jsonString == StripFence(o.text[1])
         IN IF ~LooksLikeObject(jsonString)
            THEN Thrown(<<"AI response format error: Expected JSON object structure.">>)
            ELSE IF ~JsonParses(jsonString)
            THEN Thrown(<<"AI response format error: Could not parse JSON. ", "SyntaxError">>)
            ELSE LET analysisResult == JsonParse(jsonString, o.members)
                 IN IF analysisResult.contains_food \notin {"true", "false"}
                    THEN Thrown(<<"AI response validation error: Required contains_food field is missing or invalid.">>)
                    ELSE Parsed(analysisResult)

\* ---- the locals of one Analyze request (route.ts 121-461)
\* calls counts the calls the request has made of each collaborator.
NoCalls == [getSession |-> 0, json |-> 0, fetch |-> 0, generateContent |-> 0, insert |-> 0]

\* cookie is what the identity provider makes of the request's cookies: the
\* outcome getSession has for this request.  body is the request's body as
\* request.json() found it.  signal is the AbortSignal given to fetch
\* ("pending", then "aborted" once its timer has fired) and fetching tells
\* whether the runtime still has that fetch (head or body) in flight.
AnalyzeIdle ==
    [pc |-> "idle", cookie |-> None, session |-> None, body |-> None, imageUrl |-> None,
     signal |-> None, fetching |-> FALSE,
     imageResponse |-> None, fetchError |-> None,
     mimeType |-> None, imageBuffer |-> None, parts |-> None,
     analysisResult |-> None, finalResult |-> None, dbError |-> None,
     response |-> None, calls |-> NoCalls]

\* The user whose cookie request r carries
Caller(r) == r

Respond(st, resp) == [st EXCEPT !.pc = "done", !.response = Some(resp)]
Call(st, name, pc) == [st EXCEPT !.pc = pc, !.calls[name] = @ + 1]

\* the main catch block (route.ts 443-459)
FatalResponse(message) ==
    Json([contains_food |-> FALSE, dish_name |-> "Analysis Error",
          error |-> IF message = "" THEN <<"An unexpected server error occurred.">>
                    ELSE <<message>>], 500)

\* What getSession can do: resolve to {error}, to no session or to the
\* caller's session, or reject.
SessionOutcomes(r) ==
    [kind : {"error", "throws"}, message : {"invalid JWT", "session expired"}, user : {0}]
    \cup [kind : {"none"}, message : {""}, user : {0}]
    \cup [kind : {"session"}, message : {""}, user : {Caller(r)}]

\* ---- Step 0 (route.ts 128-151)
Unavailable503 ==
    Json([error |-> <<"Server configuration error: AI analysis service is unavailable.">>,
          contains_food |-> FALSE], 503)

ClientReady == model # "null" /\ genAI # "null"

\* mutant: the prerequisites are not checked
AfterStartUnchecked(st, ready) == Call(st, "getSession", "awaitSession")

AfterStart(st, ready) ==
    IF ~ready THEN Respond(st, Unavailable503)
    ELSE Call(st, "getSession", "awaitSession")

AnalyzeStart(r) ==
    /\ analyze[r].pc = "idle"
    /\ \E c \in SessionOutcomes(r) :
          analyze' = [analyze EXCEPT ![r] = AfterStart([@ EXCEPT !.cookie = Some(c)],
                                                       ClientReady)]
    /\ UNCHANGED <<apiKey, genAI, model, food_analyses, uploadVars, replyVars, dashboard>>

\* ---- Step 1 (route.ts 144-173)
AuthFailed401(o) ==
    IF o.kind = "error"
    THEN Json([error |-> <<"Authentication failed">>, details |-> o.message,
               contains_food |-> FALSE], 401)
    ELSE Json([error |-> <<"Unauthorized">>, contains_food |-> FALSE], 401)

\* mutant: a request without a session goes on as an anonymous user
AfterSessionAnonymous(st, o) ==
    CASE o.kind = "throws" -> Respond(st, FatalResponse(o.message))
      [] o.kind = "error" -> Respond(st, AuthFailed401(o))
      [] OTHER -> Call([st EXCEPT !.session = Some(o.user)], "json", "awaitJson")

AfterSession(st, o) ==
    CASE o.kind = "throws" -> Respond(st, FatalResponse(o.message))
      [] o.kind \in {"error", "none"} -> Respond(st, AuthFailed401(o))
      [] OTHER -> Call([st EXCEPT !.session = Some(o.user)], "json", "awaitJson")

SessionReturns(r) ==
    /\ analyze[r].pc = "awaitSession"
    /\ analyze' = [analyze EXCEPT ![r] = AfterSession(@, @.cookie[1])]
    /\ UNCHANGED <<apiKey, genAI, model, food_analyses, uploadVars, replyVars, dashboard>>

\* ---- Step 2 (route.ts 175-206)
\* request.json() throws on a body that is no JSON; body.imageUrl is a
\* string, a value of another type, or absent.  ImageUrl(r) is the URL in
\* the body of request r when it carries one: each request names its own.
ImageUrl(r) ==
    "https://dish.s3.eu-west-1.amazonaws.com/" \o ToString(r) \o ".jpg?X-Amz-Signature=ab"

BodyOutcomes(r) ==
    [kind : {"throws"}, t : {"absent"}, s : {""}]
    \cup [kind : {"json"}, t : {"absent", "number"}, s : {""}]
    \cup [kind : {"json"}, t : {"string"}, s : {ImageUrl(r), ""}]

\* mutant: only the type of imageUrl is tested
ImageUrlNotString(o) == o.t # "string"

\* !imageUrl || typeof imageUrl !== "string"; a non-string value is taken
\* to be truthy here, both tests reject it
ImageUrlRejected(o) == o.t # "string" \/ o.s = ""

BadBody400(o) ==
    Json([error |-> <<"Invalid request body: ",
                      IF o.kind = "throws" THEN "SyntaxError"
                      ELSE "imageUrl is missing or not a string in request body.">>,
          contains_food |-> FALSE], 400)

AfterJson(st, o) ==
    LET got == [st EXCEPT !.body = Some(o)]
    IN IF o.kind = "throws" \/ ImageUrlRejected(o)
       THEN Respond(got, BadBody400(o))
       ELSE Call([got EXCEPT !.imageUrl = Some(o.s), !.signal = Some("pending"),
                             !.fetching = TRUE],
                 "fetch", "awaitFetch")

JsonReturns(r) ==
    /\ analyze[r].pc = "awaitJson"
    /\ \E o \in BodyOutcomes(r) :
          analyze' = [analyze EXCEPT ![r] = AfterJson(@, o)]
    /\ UNCHANGED <<apiKey, genAI, model, food_analyses, uploadVars, replyVars, dashboard>>

\* ---- Step 3 (route.ts 208-269)
imageFetchTimeout == 20000

\* A content type is kept as its two halves, so that startsWith("image/")
\* is a test of the first.
ContentTypes == {None, Some(<<"image/", "jpeg">>), Some(<<"text/", "html">>)}
IsImageType(ct) == ct # None /\ ct[1][1] = "image/"

\* fetch() rejects (the abort signal fired: TimeoutError; or the network
\* failed: TypeError) or resolves to the response's head.
FetchOutcomes ==
    [kind : {"throws"}, name : {"TimeoutError", "TypeError"}, status : {0},
     statusText : {""}, contentType : {None}]
    \cup [kind : {"response"}, name : {""}, status : {200}, statusText : {"OK"},
          contentType : ContentTypes]
    \cup [kind : {"response"}, name : {""}, status : {404}, statusText : {"Not Found"},
          contentType : {Some(<<"text/", "html">>)}]
    \cup [kind : {"response"}, name : {""}, status : {403}, statusText : {"Forbidden"},
          contentType : {Some(<<"image/", "jpeg">>)}]

\* fetch(imageUrl, {signal: AbortSignal.timeout(imageFetchTimeout)}), route.ts
\* 214-216: the runtime's part when the fetch or the read of its body
\* ends.  A TimeoutError is the signal's abort reason: the timer has fired
\* and the runtime has terminated the fetch; a network error or a body
\* read to its end leaves nothing in flight either.
\* mutant: the timeout is a timer raced against the fetch, which runs on
SettledAbandoned(st, name) ==
    IF name = "TimeoutError" THEN st ELSE [st EXCEPT !.fetching = FALSE]

Settled(st, name) ==
    [st EXCEPT !.fetching = FALSE,
               !.signal = IF name = "TimeoutError" THEN Some("aborted") ELSE @]

\* Response.ok
Ok(status) == status >= 200 /\ status <= 299

\* the catch block of Step 3 (route.ts 256-269)
\* mutant: a failed image fetch is reported as a bad gateway
FetchFailed502(name, message) ==
    Json([error |-> <<"Could not fetch or process image: ">> \o message,
          contains_food |-> FALSE], 502)

FetchFailed400(name, message) ==
    Json([error |-> IF name = "TimeoutError"
                    THEN <<"Fetching image timed out after ", ToString(imageFetchTimeout \div 1000),
                           " seconds.">>
                    ELSE <<"Could not fetch or process image: ">> \o message,
          contains_food |-> FALSE], 400)

FailedToFetch(status, statusText) == <<"Failed to fetch image: ", ToString(status), " ", statusText>>
NotAnImage(ct) ==
    <<"URL did not return a valid image (Content-Type: ",
      IF ct = None THEN "N/A" ELSE ct[1][1], IF ct = None THEN "" ELSE ct[1][2], ").">>

\* the catch block of Step 3, entered with the error caught
CatchFetch(st, name, message) ==
    Respond([st EXCEPT !.fetchError = Some([name |-> name, message |-> message])],
            FetchFailed400(name, message))

ResponseHead(o) == [status |-> o.status, statusText |-> o.statusText, contentType |-> o.contentType]

\* mutant: the status of the response is not looked at
AfterFetchAnyStatus(st, o) ==
    IF o.kind = "throws"
    THEN CatchFetch(Settled(st, o.name), o.name, <<"fetch failed">>)
    ELSE IF ~IsImageType(o.contentType)
    THEN CatchFetch([st EXCEPT !.imageResponse = Some(ResponseHead(o))],
                    "Error", NotAnImage(o.contentType))
    ELSE [st EXCEPT !.pc = "awaitArrayBuffer", !.mimeType = o.contentType,
                    !.imageResponse = Some(ResponseHead(o))]

AfterFetch(st, o) ==
    IF o.kind = "throws"
    THEN CatchFetch(Settled(st, o.name), o.name, <<"fetch failed">>)
    ELSE IF ~Ok(o.status)
    THEN [st EXCEPT !.pc = "awaitText", !.imageResponse = Some(ResponseHead(o))]
    ELSE IF ~IsImageType(o.contentType)
    THEN CatchFetch([st EXCEPT !.imageResponse = Some(ResponseHead(o))],
                    "Error", NotAnImage(o.contentType))
    ELSE [st EXCEPT !.pc = "awaitArrayBuffer", !.mimeType = o.contentType,
                    !.imageResponse = Some(ResponseHead(o))]

FetchReturns(r) ==
    /\ analyze[r].pc = "awaitFetch"
    /\ \E o \in FetchOutcomes :
          analyze' = [analyze EXCEPT ![r] = AfterFetch(@, o)]
    /\ UNCHANGED <<apiKey, genAI, model, food_analyses, uploadVars, replyVars, dashboard>>

\* mutant: a response that is not ok is fetched again
AfterTextRefetch(st) == Call(st, "fetch", "awaitFetch")

\* imageResponse.text().catch(...): whatever the read of the error body
\* does, the handler throws "Failed to fetch image"
AfterText(st) ==
    CatchFetch(Settled(st, "Error"), "Error",
               FailedToFetch(st.imageResponse[1].status, st.imageResponse[1].statusText))

TextReturns(r) ==
    /\ analyze[r].pc = "awaitText"
    /\ analyze' = [analyze EXCEPT ![r] = AfterText(@)]
    /\ UNCHANGED <<apiKey, genAI, model, food_analyses, uploadVars, replyVars, dashboard>>

\* imageResponse.arrayBuffer() resolves to the bytes or rejects (the abort
\* signal covers the body too).  Step 4 follows without an await.  A
\* response that is ok but no image is thrown away unread (route.ts
\* 230-241): its body stays open until the signal's timer fires.
Bytes == {"JFIF-bytes"}
Base64(b) == <<"base64", b>>

BufferOutcomes ==
    [kind : {"throws"}, name : {"TimeoutError", "TypeError"}, bytes : {""}]
    \cup [kind : {"bytes"}, name : {""}, bytes : Bytes]

AfterArrayBuffer(st, o) ==
    IF o.kind = "throws"
    THEN CatchFetch(Settled(st, o.name), o.name, <<"terminated">>)
    ELSE Call([Settled(st, "") EXCEPT !.imageBuffer = Some(o.bytes),
                                      !.parts = Some([mimeType |-> st.mimeType[1],
                                                      data |-> Base64(o.bytes)])],
              "generateContent", "awaitGenerate")

ArrayBufferReturns(r) ==
    /\ analyze[r].pc = "awaitArrayBuffer"
    /\ \E o \in BufferOutcomes :
          analyze' = [analyze EXCEPT ![r] = AfterArrayBuffer(@, o)]
    /\ UNCHANGED <<apiKey, genAI, model, food_analyses, uploadVars, replyVars, dashboard>>

\* ---- Step 5 (route.ts 281-367)
AnalysisFailed500(message) ==
    Json([contains_food |-> FALSE, dish_name |-> "Analysis Failed",
          error |-> <<"Could not process AI response: ">>
                    \o (IF message = <<"">> THEN <<"Unknown AI error">> ELSE message)],
         500)

\* ---- Step 7, the row handed to insert (route.ts 407-411)
InsertData(r, st) ==
    [by |-> r, user_id |-> st.session[1], image_url |-> st.imageUrl[1],
     analysis_result |-> ToJson(st.finalResult[1])]

\* ---- Step 8 (route.ts 430-442)
Success200(st) == Json(ToJson(st.finalResult[1]), 200)

\* mutant: the row is inserted whether or not food was detected
AfterGenerateAlwaysInsert(st, o) ==
    LET p == ParseReply(o)
        normalized == [st EXCEPT !.analysisResult = Some(p.value),
                                 !.finalResult = Some(Normalize(p.value))]
    IN IF ~p.ok THEN Respond(st, AnalysisFailed500(p.message))
       ELSE Call(normalized, "insert", "awaitInsert")

\* Steps 5 to 7, from the model's reply to the insert call or the return
AfterGenerate(st, o) ==
    LET p == ParseReply(o)
        normalized == [st EXCEPT !.analysisResult = Some(p.value),
                                 !.finalResult = Some(Normalize(p.value))]
    IN IF ~p.ok THEN Respond(st, AnalysisFailed500(p.message))
       ELSE IF normalized.finalResult[1].contains_food = "true"
       THEN Call(normalized, "insert", "awaitInsert")
       ELSE Respond(normalized, Success200(normalized))

GenerateReturns(r) ==
    /\ analyze[r].pc = "awaitGenerate"
    /\ \E o \in ModelOutcomes :
          analyze' = [analyze EXCEPT ![r] = AfterGenerate(@, o)]
    /\ UNCHANGED <<apiKey, genAI, model, food_analyses, uploadVars, replyVars, dashboard>>

\* supabase.from("food_analyses").insert(insertData) resolves to {error}
\* or rejects.  The store has written the row when it reports success and
\* has not when it reports an error; a rejected call (the reply was lost)
\* leaves either.
InsertOutcomes ==
    [kind : {"ok"}, written : {TRUE}]
    \cup [kind : {"error"}, written : {FALSE}]
    \cup [kind : {"throws"}, written : BOOLEAN]

\* mutant: the write replaces what the table holds
InsertedReplacing(rows, row, o) == IF o.written THEN {row} ELSE rows

Inserted(rows, row, o) == IF o.written THEN rows \cup {row} ELSE rows

\* mutant: a failed insert fails the request
AfterInsertFailing(st, o) ==
    IF o.kind = "ok"
    THEN Respond([st EXCEPT !.dbError = Some("null")], Success200(st))
    ELSE Respond(st, FatalResponse("Failed to save analysis"))

\* dbError is the error field of the resolved call: "null" or an error;
\* a rejected call is caught and leaves it unset
AfterInsert(st, o) ==
    LET returned == IF o.kind = "throws" THEN st
                    ELSE [st EXCEPT !.dbError = Some(IF o.kind = "ok" THEN "null"
                                                     ELSE "PostgrestError")]
    IN Respond(returned, Success200(returned))

InsertReturns(r) ==
    /\ analyze[r].pc = "awaitInsert"
    /\ \E o \in InsertOutcomes :
          /\ food_analyses' = Inserted(food_analyses, InsertData(r, analyze[r]), o)
          /\ analyze' = [analyze EXCEPT ![r] = AfterInsert(@, o)]
    /\ UNCHANGED <<apiKey, genAI, model, uploadVars, replyVars, dashboard>>

AnalyzeNext ==
    \E r \in AReqs :
        \/ AnalyzeStart(r)
        \/ SessionReturns(r)
        \/ JsonReturns(r)
        \/ FetchReturns(r)
        \/ TextReturns(r)
        \/ ArrayBufferReturns(r)
        \/ GenerateReturns(r)
        \/ InsertReturns(r)

\* =========================================================== UPLOAD
\* ---- configuration (upload/route.ts 9-12)
signedUrlExpireSeconds == 60 * 60
maxFileSizeMB == 5
allowedMimeTypes == <<"image/jpeg", "image/png", "image/webp", "image/gif">>

\* route.ts 76
maxSizeBytes == maxFileSizeMB * 1024 * 1024

\* ---- the files a client may send in the `file` field
\* A file name is kept as the pieces between its dots.
FileNames == {<<"meal", "jpg">>}
FileSizes == {2 * 1024 * 1024, maxSizeBytes, maxSizeBytes + 1}
FileTypes == {"image/jpeg", "application/pdf"}
FileBytes == {"B1", "B2"}
Files == [name : FileNames, size : FileSizes, type : FileTypes, bytes : FileBytes]

NoUploadCalls ==
    [getSession |-> 0, formData |-> 0, arrayBuffer |-> 0, upload |-> 0, getSignedUrl |-> 0]

\* formData is set once request.formData() has parsed the body
UploadIdle ==
    [pc |-> "idle", cookie |-> None, session |-> None, formData |-> None,
     file |-> None, fileName |-> None,
     buffer |-> None, s3UploadError |-> None, signingError |-> None,
     response |-> None, calls |-> NoUploadCalls]

\* the main catch block (upload/route.ts 199-212)
UploadFatal(message) ==
    Json([error |-> IF message = ""
                    THEN <<"An unexpected server error occurred during upload.">>
                    ELSE <<message>>,
          success |-> FALSE], 500)

UploadStart(r) ==
    /\ upload[r].pc = "idle"
    /\ \E c \in SessionOutcomes(r) :
          upload' = [upload EXCEPT ![r] =
                        Call([@ EXCEPT !.cookie = Some(c)], "getSession", "awaitSession")]
    /\ UNCHANGED <<awsEnv, bucket, issuedKeys, analyzeVars, replyVars, dashboard>>

\* ---- 1. Authentication (upload/route.ts 18-45)
UploadAuthFailed401(o) ==
    IF o.kind = "error"
    THEN Json([error |-> <<"Authentication failed">>, details |-> o.message,
               success |-> FALSE], 401)
    ELSE Json([error |-> <<"Unauthorized">>, success |-> FALSE], 401)

\* mutant: a request without a session goes on as an anonymous user
UploadAfterSessionAnonymous(st, o) ==
    CASE o.kind = "throws" -> Respond(st, UploadFatal(o.message))
      [] o.kind = "error" -> Respond(st, UploadAuthFailed401(o))
      [] OTHER -> Call([st EXCEPT !.session = Some(o.user)], "formData", "awaitFormData")

UploadAfterSession(st, o) ==
    CASE o.kind = "throws" -> Respond(st, UploadFatal(o.message))
      [] o.kind \in {"error", "none"} -> Respond(st, UploadAuthFailed401(o))
      [] OTHER -> Call([st EXCEPT !.session = Some(o.user)], "formData", "awaitFormData")

UploadSessionReturns(r) ==
    /\ upload[r].pc = "awaitSession"
    /\ upload' = [upload EXCEPT ![r] = UploadAfterSession(@, @.cookie[1])]
    /\ UNCHANGED <<awsEnv, bucket, issuedKeys, analyzeVars, replyVars, dashboard>>

\* ---- 2. and 3. the file and its validation (upload/route.ts 47-102)
FormOutcomes ==
    [kind : {"throws"}, file : {None}]
    \cup [kind : {"form"}, file : {None} \cup {Some(f) : f \in Files}]

\* mutant: a file of exactly the limit is rejected
TooLargeOrEqual(f) == f.size >= maxSizeBytes
TooLarge(f) == f.size > maxSizeBytes

\* mutant: the list of allowed types lets documents through
TypeAllowedOrPdf(f) == f.type \in Range(allowedMimeTypes) \cup {"application/pdf"}
TypeAllowed(f) == f.type \in Range(allowedMimeTypes)

BadForm400 ==
    Json([error |-> <<"Failed to parse form data: ", "TypeError">>, success |-> FALSE], 400)
NoFile400 == Json([error |-> <<"No file provided">>, success |-> FALSE], 400)
TooLarge413 ==
    Json([error |-> <<"File too large (max ", ToString(maxFileSizeMB), "MB)">>,
          success |-> FALSE], 413)
BadType415 ==
    Json([error |-> <<"Invalid file type. Only ">> \o allowedMimeTypes \o <<" allowed.">>,
          success |-> FALSE], 415)

\* uuidv4(): a value not drawn before (a collision is taken to be
\* impossible); which one does not matter, so the least.
Uuidv4(issued) == Cardinality(issued) + 1

\* file.name.split(".").pop()
FileExt(name) == name[Len(name)]

\* mutant: the key is made from the file's name alone
NewFileNameFromName(f, issued) == [uuid |-> 0, ext |-> FileExt(f.name)]

\* 4. the key `${uuidv4()}.${fileExt}` (upload/route.ts 107-108)
NewFileName(f, issued) == [uuid |-> Uuidv4(issued), ext |-> FileExt(f.name)]

\* mutant: the type is tested before the size
UploadAfterFormDataTypeFirst(st, o, issued) ==
    LET got == [st EXCEPT !.formData = Some("FormData"), !.file = o.file]
    IN IF o.kind = "throws" THEN Respond(st, BadForm400)
       ELSE IF o.file = None THEN Respond(got, NoFile400)
       ELSE IF ~TypeAllowed(o.file[1]) THEN Respond(got, BadType415)
       ELSE IF TooLarge(o.file[1]) THEN Respond(got, TooLarge413)
       ELSE Call([got EXCEPT !.fileName = Some(NewFileName(o.file[1], issued))],
                 "arrayBuffer", "awaitFileBuffer")

UploadAfterFormData(st, o, issued) ==
    LET got == [st EXCEPT !.formData = Some("FormData"), !.file = o.file]
    IN IF o.kind = "throws" THEN Respond(st, BadForm400)
       ELSE IF o.file = None THEN Respond(got, NoFile400)
       ELSE IF TooLarge(o.file[1]) THEN Respond(got, TooLarge413)
       ELSE IF ~TypeAllowed(o.file[1]) THEN Respond(got, BadType415)
       ELSE Call([got EXCEPT !.fileName = Some(NewFileName(o.file[1], issued))],
                 "arrayBuffer", "awaitFileBuffer")

FormDataReturns(r) ==
    /\ upload[r].pc = "awaitFormData"
    /\ \E o \in FormOutcomes :
          /\ upload' = [upload EXCEPT ![r] = UploadAfterFormData(@, o, issuedKeys)]
          /\ issuedKeys' = IF upload'[r].fileName = None THEN issuedKeys
                           ELSE issuedKeys \cup {upload'[r].fileName[1].uuid}
    /\ UNCHANGED <<awsEnv, bucket, analyzeVars, replyVars, dashboard>>

\* ---- 4. and 5. the buffer and the AWS configuration (upload/route.ts 111-140)
NoAws500 ==
    Json([error |-> <<"Server configuration error: AWS details missing">>,
          success |-> FALSE], 500)

FileBufferOutcomes == {"bytes", "throws"}

UploadAfterFileBuffer(st, o, envSet) ==
    IF o = "throws" THEN Respond(st, UploadFatal("The file could not be read"))
    ELSE IF ~envSet THEN Respond([st EXCEPT !.buffer = Some(st.file[1].bytes)], NoAws500)
    ELSE Call([st EXCEPT !.buffer = Some(st.file[1].bytes)], "upload", "awaitPut")

FileBufferReturns(r) ==
    /\ upload[r].pc = "awaitFileBuffer"
    /\ \E o \in FileBufferOutcomes :
          upload' = [upload EXCEPT ![r] = UploadAfterFileBuffer(@, o, awsEnv)]
    /\ UNCHANGED <<awsEnv, bucket, issuedKeys, analyzeVars, replyVars, dashboard>>

\* ---- 6. s3.upload(uploadParams).promise() (upload/route.ts 142-160)
\* No ACL is set: the object is private.  The store holds the object when
\* the call resolves; a rejected call leaves it written or not.
UploadParams(st) ==
    [Key |-> st.fileName[1], Body |-> st.buffer[1], ContentType |-> st.file[1].type]

PutOutcomes ==
    [kind : {"ok"}, written : {TRUE}, message : {""}]
    \cup [kind : {"throws"}, written : BOOLEAN, message : {"AccessDenied", "SlowDown"}]

\* the bucket after a put: the key maps to the object, replacing any
\* object stored under it
Put(objects, params, o) ==
    IF o.written
    THEN [k \in DOMAIN objects \cup {params.Key} |->
            IF k = params.Key
            THEN [Body |-> params.Body, ContentType |-> params.ContentType]
            ELSE objects[k]]
    ELSE objects

PutFailed500(message) ==
    Json([error |-> <<"S3 upload failed: ", message>>, success |-> FALSE], 500)

\* mutant: the catch block logs the error and falls through to the signing
UploadAfterPutFallsThrough(st, o) ==
    IF o.kind = "throws"
    THEN Call([st EXCEPT !.s3UploadError = Some(o.message)], "getSignedUrl", "awaitSign")
    ELSE Call(st, "getSignedUrl", "awaitSign")

UploadAfterPut(st, o) ==
    IF o.kind = "throws"
    THEN Respond([st EXCEPT !.s3UploadError = Some(o.message)], PutFailed500(o.message))
    ELSE Call(st, "getSignedUrl", "awaitSign")

PutReturns(r) ==
    /\ upload[r].pc = "awaitPut"
    /\ \E o \in PutOutcomes :
          /\ bucket' = Put(bucket, UploadParams(upload[r]), o)
          /\ upload' = [upload EXCEPT ![r] = UploadAfterPut(@, o)]
    /\ UNCHANGED <<awsEnv, issuedKeys, analyzeVars, replyVars, dashboard>>

\* ---- 7. and 8. the pre-signed URL (upload/route.ts 162-198)
\* getSignedUrlPromise("getObject", {Bucket, Key, Expires})
SignedUrl(key, expires) ==
    [Key |-> key, X_Amz_Expires |-> expires, X_Amz_Signature |-> <<"sig", key, expires>>]

SignOutcomes == [kind : {"ok", "throws"}, message : {"CredentialsError"}]

\* mutant: the link is signed for one minute
Uploaded200ShortLived(st) ==
    Json([url |-> SignedUrl(st.fileName[1], 60), success |-> TRUE,
          s3_key |-> st.fileName[1]], 200)
Uploaded200(st) ==
    Json([url |-> SignedUrl(st.fileName[1], signedUrlExpireSeconds), success |-> TRUE,
          s3_key |-> st.fileName[1]], 200)

SignFailed500(message) ==
    Json([error |-> <<"Failed to create access URL after upload: ", message>>,
          success |-> FALSE], 500)

UploadAfterSign(st, o) ==
    IF o.kind = "throws"
    THEN Respond([st EXCEPT !.signingError = Some(o.message)], SignFailed500(o.message))
    ELSE Respond(st, Uploaded200(st))

SignReturns(r) ==
    /\ upload[r].pc = "awaitSign"
    /\ \E o \in SignOutcomes :
          upload' = [upload EXCEPT ![r] = UploadAfterSign(@, o)]
    /\ UNCHANGED <<awsEnv, bucket, issuedKeys, analyzeVars, replyVars, dashboard>>

UploadNext ==
    \E r \in UReqs :
        \/ UploadStart(r)
        \/ UploadSessionReturns(r)
        \/ FormDataReturns(r)
        \/ FileBufferReturns(r)
        \/ PutReturns(r)
        \/ SignReturns(r)

\* ================================================= the dashboard page
\* dashboard/page.tsx with its ImageUploader (components/image-uploader.tsx).
\* The page is shown to a signed-in user (page.tsx 204-220).  An uploaded
\* image is known to the page by the URL the Upload endpoint returned for
\* it; every upload has a new key, so a new URL.
NumImages == 3

\* the url field of a 200 Upload response, for the i-th upload
UploadedUrl(i) == [image |-> i, X_Amz_Signature |-> TRUE, X_Amz_Expires |-> TRUE]

\* url.includes("X-Amz-Signature=") && url.includes("X-Amz-Expires=")
IsPreSigned(url) == url.X_Amz_Signature /\ url.X_Amz_Expires

\* The page's state (page.tsx 39-42) and the uploader's (image-uploader.tsx
\* 18-19); call is the analyzeImage invocation in flight: where it is
\* suspended, the imageUrl it closed over and the response it has.
DashboardIdle ==
    [imageUrl |-> None, isAnalyzing |-> FALSE, analysisResult |-> None,
     preview |-> FALSE, uploading |-> FALSE, call |-> None]

\* The uploader is rendered inside the "upload" tab, which is the selected
\* tab as long as there is no result (page.tsx 225-243).
UploaderShown(st) == st.analysisResult = None

\* page.tsx 65-105; url is None for an empty or null url
handleImageUpload(st, url, error) ==
    IF error THEN [st EXCEPT !.imageUrl = None, !.analysisResult = None]
    ELSE IF url # None THEN [st EXCEPT !.imageUrl = url, !.analysisResult = None]
    ELSE [st EXCEPT !.imageUrl = None, !.analysisResult = None]

\* image-uploader.tsx 24-64: a valid file is chosen (an invalid one only
\* raises a toast), the preview is set and uploadImage starts its fetch
HandleFileChange ==
    /\ UploaderShown(dashboard) /\ ~dashboard.uploading
    /\ dashboard' = [dashboard EXCEPT !.preview = TRUE, !.uploading = TRUE]
    /\ UNCHANGED <<analyzeVars, uploadVars, replyVars>>

\* image-uploader.tsx 83-156: the Upload endpoint answers; on success
\* onUpload(result.url) is called, on any failure the preview is dropped.
\* The URL is a new one: none of those the page still remembers.
UploadImageReturns ==
    /\ dashboard.uploading
    /\ \/ \E i \in 1..NumImages :
             /\ UploadedUrl(i) \notin
                    Range(dashboard.imageUrl)
                    \cup {c.imageUrl : c \in Range(dashboard.call)}
                    \cup {res.of : res \in Range(dashboard.analysisResult)}
             /\ dashboard' = [handleImageUpload(dashboard, Some(UploadedUrl(i)), FALSE)
                                 EXCEPT !.uploading = FALSE]
       \/ dashboard' = [dashboard EXCEPT !.preview = FALSE, !.uploading = FALSE]
    /\ UNCHANGED <<analyzeVars, uploadVars, replyVars>>

\* image-uploader.tsx 158-164, the button at 238-246: onUpload("")
ClearImage ==
    /\ UploaderShown(dashboard) /\ dashboard.preview /\ ~dashboard.uploading
    /\ dashboard' = [handleImageUpload(dashboard, None, FALSE) EXCEPT !.preview = FALSE]
    /\ UNCHANGED <<analyzeVars, uploadVars, replyVars>>

\* page.tsx 108-153, up to the await of fetch("/api/analyze"); the button
\* is disabled without an image and during an analysis (247)
analyzeImage(st) ==
    IF st.imageUrl = None \/ ~IsPreSigned(st.imageUrl[1]) THEN st
    ELSE [st EXCEPT !.isAnalyzing = TRUE, !.analysisResult = None,
                    !.call = Some([pc |-> "awaitFetch", imageUrl |-> st.imageUrl[1],
                                   response |-> None])]

AnalyzeClicked ==
    /\ UploaderShown(dashboard)
    /\ dashboard.imageUrl # None /\ ~dashboard.isAnalyzing
    /\ dashboard' = analyzeImage(dashboard)
    /\ UNCHANGED <<analyzeVars, uploadVars, replyVars>>

\* What the Analyze endpoint answers for the url it was sent: a result for
\* that image, or a failure body; or the fetch rejects.
AnalyzeResponses(url) ==
    [kind : {"response"}, ok : {TRUE}, result : [of : {url}, contains_food : BOOLEAN]]
    \cup [kind : {"response"}, ok : {FALSE}, result : [of : {url}, contains_food : {FALSE}]]
    \cup [kind : {"rejects"}, ok : {FALSE}, result : [of : {url}, contains_food : {FALSE}]]

\* page.tsx 187-197: catch and finally
AnalyzeCaught(st) == [st EXCEPT !.analysisResult = None, !.isAnalyzing = FALSE, !.call = None]

\* page.tsx 146-156
AnalyzeFetchReturns ==
    /\ dashboard.call # None /\ dashboard.call[1].pc = "awaitFetch"
    /\ \E o \in AnalyzeResponses(dashboard.call[1].imageUrl) :
          dashboard' = IF o.kind = "rejects" THEN AnalyzeCaught(dashboard)
                       ELSE [dashboard EXCEPT !.call[1].pc = "awaitJson",
                                              !.call[1].response = Some(o)]
    /\ UNCHANGED <<analyzeVars, uploadVars, replyVars>>

\* page.tsx 156-197: response.json() resolves (or throws on a body that is
\* no JSON); setAnalysisResult(result) when the response is ok.  With a
\* result the "results" tab is selected and the uploader goes away.
AfterResponseJson(st, parsed) ==
    LET o == st.call[1].response[1]
    IN IF ~parsed \/ ~o.ok THEN AnalyzeCaught(st)
       ELSE [st EXCEPT !.analysisResult = Some(o.result), !.isAnalyzing = FALSE,
                       !.call = None, !.preview = FALSE]

AnalyzeJsonReturns ==
    /\ dashboard.call # None /\ dashboard.call[1].pc = "awaitJson"
    /\ \E parsed \in BOOLEAN : dashboard' = AfterResponseJson(dashboard, parsed)
    /\ UNCHANGED <<analyzeVars, uploadVars, replyVars>>

DashboardNext ==
    \/ HandleFileChange
    \/ UploadImageReturns
    \/ ClearImage
    \/ AnalyzeClicked
    \/ AnalyzeFetchReturns
    \/ AnalyzeJsonReturns

\* ==================================================== specifications
\* The Analyze endpoint: the module has been loaded (with or without a key,
\* the client constructed or not), no request has arrived yet.
Init ==
    /\ apiKey \in BOOLEAN
    /\ \E ctorThrows \in BOOLEAN :
          /\ genAI = ModuleInit(apiKey, ctorThrows).genAI
          /\ model = ModuleInit(apiKey, ctorThrows).model
    /\ analyze = [r \in AReqs |-> AnalyzeIdle]
    /\ food_analyses = {}
    /\ awsEnv = TRUE
    /\ upload = [r \in UReqs |-> UploadIdle]
    /\ bucket = <<>>
    /\ issuedKeys = {}
    /\ reply = None
    /\ renormalized = None
    /\ dashboard = DashboardIdle

Next == AnalyzeNext

Spec == Init /\ [][Next]_vars

\* The Upload endpoint.
UploadInit ==
    /\ apiKey = TRUE
    /\ genAI = "ready"
    /\ model = "ready"
    /\ analyze = [r \in AReqs |-> AnalyzeIdle]
    /\ food_analyses = {}
    /\ awsEnv \in BOOLEAN
    /\ upload = [r \in UReqs |-> UploadIdle]
    /\ bucket = <<>>
    /\ issuedKeys = {}
    /\ reply = None
    /\ renormalized = None
    /\ dashboard = DashboardIdle

SpecUpload == UploadInit /\ [][UploadNext]_vars

\* ---- Steps 5 to 8 in depth: one request, every kind of reply
\* One Analyze request has fetched its image and called generateContent;
\* what the call gives back is drawn from a wide set: every short text,
\* bare and inside a code fence, and every combination of the fields of
\* the object the text denotes.  A JSON null counts as an omitted field:
\* `||`, `??` and typeof treat it as they treat undefined.
MaxTextLen == 3
MaxConfExcess == 2

\* the texts of at most n tokens
Texts(n) ==
    LET TextTokens == {"{", "$", "}", "x", "NL", "SP"}
    IN UNION {[1..k -> TextTokens] : k \in 0..n}

\* each text bare and inside a code fence: with a language tag, without
\* one, and on one line
ReplyTexts ==
    LET InFence(t) == <<"FENCE", "json", "NL">> \o t \o <<"NL", "FENCE">>
        InBareFence(t) == <<"FENCE", "NL">> \o t \o <<"NL", "FENCE">>
        InInlineFence(t) == <<"FENCE">> \o t \o <<"FENCE">>
    IN Texts(MaxTextLen)
       \cup {InFence(t) : t \in Texts(MaxTextLen)}
       \cup {InBareFence(t) : t \in Texts(MaxTextLen)}
       \cup {InInlineFence(t) : t \in Texts(MaxTextLen)}

\* every combination of omitted and supplied fields
FullObjects ==
    LET SomeMacros == [NoMacros EXCEPT !.protein = Some(12), !.fat = Some(0)]
    IN [contains_food : {"true", "false"},
        dish_name : Opt({"", "Pizza"}),
        cuisine : Opt({"Italian"}),
        serving_size : Opt({"1 slice"}),
        cooking_method : Opt({"baked"}),
        ingredients : Opt({<<>>, <<"cheese">>}),
        portion_size : Opt({"medium"}),
        total_calories : Opt({0, 450}),
        macros : {None, Some(NoMacros), Some(SomeMacros)},
        portion_comparison : Opt({"a deck of cards"}),
        allergens : Opt({<<"gluten">>}),
        confidence_score : {Absent, Num(4)}]

\* every confidence_score the model may give (absent, of another type, a
\* number from below 0 to above 1), in an object that has nothing else
ConfObjects ==
    LET ConfValues ==
            {Absent, NotNum}
            \cup {Num(n) : n \in (ConfMin - MaxConfExcess)..(ConfMax + MaxConfExcess)}
    IN ObjectsWith({"true", "false"}, {None}, ConfValues)

\* What generateContent can give here: the outcomes of Spec, every object
\* as a plain reply, and every text around an object that has no field but
\* contains_food (true, false, absent, of another type).
Replies ==
    LET TextReply(text, members) ==
            [kind |-> "response", message |-> "", candidate |-> TRUE,
             finishReason |-> "STOP", text |-> Some(text), members |-> members]
        BareObjects ==
            {[EmptyObject EXCEPT !.contains_food = f] :
                f \in {"true", "false", "absent", "nonbool"}}
    IN ModelOutcomes
       \cup {TextReply(PlainText, m) : m \in FullObjects \cup ConfObjects}
       \cup {TextReply(t, m) : t \in ReplyTexts, m \in BareObjects}

\* the locals of request r when its generateContent call is in flight
AwaitingReply(r) ==
    LET c == [kind |-> "session", message |-> "", user |-> Caller(r)]
        body == [kind |-> "json", t |-> "string", s |-> ImageUrl(r)]
        head == [kind |-> "response", name |-> "", status |-> 200, statusText |-> "OK",
                 contentType |-> Some(<<"image/", "jpeg">>)]
        bytes == [kind |-> "bytes", name |-> "", bytes |-> "JFIF-bytes"]
        arrived == AfterStart([AnalyzeIdle EXCEPT !.cookie = Some(c)], TRUE)
    IN AfterArrayBuffer(AfterFetch(AfterJson(AfterSession(arrived, c), body), head), bytes)

ReplyInit ==
    /\ apiKey = TRUE
    /\ genAI = "ready"
    /\ model = "ready"
    /\ analyze = [r \in AReqs |-> IF r = 1 THEN AwaitingReply(r) ELSE AnalyzeIdle]
    /\ food_analyses = {}
    /\ awsEnv = TRUE
    /\ upload = [r \in UReqs |-> UploadIdle]
    /\ bucket = <<>>
    /\ issuedKeys = {}
    /\ reply \in {Some(o) : o \in Replies}
    /\ renormalized = None
    /\ dashboard = DashboardIdle

\* generateContent gives the reply; Steps 5 to 7 follow
GenerateReturnsReply(r) ==
    /\ analyze[r].pc = "awaitGenerate"
    /\ reply # None
    /\ analyze' = [analyze EXCEPT ![r] = AfterGenerate(@, reply[1])]
    /\ UNCHANGED <<apiKey, genAI, model, food_analyses, uploadVars, replyVars, dashboard>>

\* Step 6 once more, on the finalResult it produced
NormalizeAgain(r) ==
    /\ analyze[r].pc = "done"
    /\ analyze[r].finalResult # None
    /\ renormalized = None
    /\ renormalized' = Some(Normalize(analyze[r].finalResult[1]))
    /\ UNCHANGED <<analyzeVars, uploadVars, reply, dashboard>>

ReplyNext ==
    \E r \in AReqs :
        \/ GenerateReturnsReply(r)
        \/ InsertReturns(r)
        \/ NormalizeAgain(r)

SpecReply == ReplyInit /\ [][ReplyNext]_vars

\* ---- both endpoints at once: one Upload and one Analyze request, in any
\* configuration, their steps interleaved
PipelineInit ==
    /\ apiKey \in BOOLEAN
    /\ \E ctorThrows \in BOOLEAN :
          /\ genAI = ModuleInit(apiKey, ctorThrows).genAI
          /\ model = ModuleInit(apiKey, ctorThrows).model
    /\ analyze = [r \in AReqs |-> AnalyzeIdle]
    /\ food_analyses = {}
    /\ awsEnv \in BOOLEAN
    /\ upload = [r \in UReqs |-> UploadIdle]
    /\ bucket = <<>>
    /\ issuedKeys = {}
    /\ reply = None
    /\ renormalized = None
    /\ dashboard = DashboardIdle

PipelineNext ==
    \/ AnalyzeStart(1)
    \/ SessionReturns(1)
    \/ JsonReturns(1)
    \/ FetchReturns(1)
    \/ TextReturns(1)
    \/ ArrayBufferReturns(1)
    \/ GenerateReturns(1)
    \/ InsertReturns(1)
    \/ UploadStart(1)
    \/ UploadSessionReturns(1)
    \/ FormDataReturns(1)
    \/ FileBufferReturns(1)
    \/ PutReturns(1)
    \/ SignReturns(1)

SpecPipeline == PipelineInit /\ [][PipelineNext]_vars

\* ---- the dashboard page: one signed-in user, nothing uploaded yet
DashboardInit ==
    /\ apiKey = TRUE
    /\ genAI = "ready"
    /\ model = "ready"
    /\ analyze = [r \in AReqs |-> AnalyzeIdle]
    /\ food_analyses = {}
    /\ awsEnv = TRUE
    /\ upload = [r \in UReqs |-> UploadIdle]
    /\ bucket = <<>>
    /\ issuedKeys = {}
    /\ reply = None
    /\ renormalized = None
    /\ dashboard = DashboardIdle

SpecDashboard == DashboardInit /\ [][DashboardNext]_vars

\* ---- the Analyze endpoint with its scheduling
\* Every call a request is suspended on returns in the end (the image
\* fetch by its timeout at the latest), and the handler then runs on; of
\* the insert call alone nothing is assumed: it may never complete.
AnalyzeFairness ==
    \A r \in AReqs :
        /\ WF_vars(AnalyzeStart(r))
        /\ WF_vars(SessionReturns(r))
        /\ WF_vars(JsonReturns(r))
        /\ WF_vars(FetchReturns(r))
        /\ WF_vars(TextReturns(r))
        /\ WF_vars(ArrayBufferReturns(r))
        /\ WF_vars(GenerateReturns(r))

SpecLive == Spec /\ AnalyzeFairness

\* ---- the Analyze endpoint when the model never answers
\* Every awaited call returns in the end, the insert included, except
\* generateContent: the handler sets no time limit on it (route.ts
\* 288-292), so of its return nothing is assumed.
ModelSilentFairness ==
    \A r \in AReqs :
        /\ WF_vars(AnalyzeStart(r))
        /\ WF_vars(SessionReturns(r))
        /\ WF_vars(JsonReturns(r))
        /\ WF_vars(FetchReturns(r))
        /\ WF_vars(TextReturns(r))
        /\ WF_vars(ArrayBufferReturns(r))
        /\ WF_vars(InsertReturns(r))

SpecModelSilent == Spec /\ ModelSilentFairness

\* ============================================================ claims
Done(r) == analyze[r].pc = "done"
Status(r) == analyze[r].response[1].status
Body(r) == analyze[r].response[1].body
RowsBy(r) == {row \in food_analyses : row.by = r}

\* the model's reply was parsed and passed the contains_food validation
Validated(r) ==
    /\ analyze[r].analysisResult # None
    /\ analyze[r].analysisResult[1].contains_food \in {"true", "false"}
FoodDetected(r) == Validated(r) /\ analyze[r].analysisResult[1].contains_food = "true"
NoFoodDetected(r) == Validated(r) /\ analyze[r].analysisResult[1].contains_food = "false"

\* what Step 6 makes of the validated reply, as sent in a response
Normalized(r) == ToJson(Normalize(analyze[r].analysisResult[1]))

InUnitInterval(tenths) == 0 <= tenths /\ tenths <= 10

NoExternalWork(r) ==
    /\ analyze[r].calls.fetch = 0
    /\ analyze[r].calls.generateContent = 0
    /\ analyze[r].calls.insert = 0
    /\ RowsBy(r) = {}

NonEmptyMessage(msg) == \E i \in 1..Len(msg) : msg[i] # ""

\* C1 (as claimed): a finished Analyze request whose validated reply has
\* contains_food = true has exactly one row in food_analyses, with a
\* confidence_score in [0,1], whatever the insert call did.
C1_ExactlyOneRecord ==
    \A r \in AReqs :
        Done(r) /\ FoodDetected(r) =>
            /\ Cardinality(RowsBy(r)) = 1
            /\ \A row \in RowsBy(r) : InUnitInterval(row.analysis_result.confidence_score)

\* C1 (amended): such a request has called insert exactly once and has at
\* most one row, which is the row it handed to insert, with a
\* confidence_score in [0,1]; it has exactly one row when the insert
\* returned without error, and none when the insert returned an error.
C1_AtMostOneRecord ==
    \A r \in AReqs :
        /\ Cardinality(RowsBy(r)) <= 1
        /\ \A row \in RowsBy(r) :
              /\ InUnitInterval(row.analysis_result.confidence_score)
              /\ row.analysis_result.contains_food = TRUE
        /\ Done(r) /\ FoodDetected(r) =>
              /\ analyze[r].calls.insert = 1
              /\ analyze[r].dbError = Some("null") => Cardinality(RowsBy(r)) = 1
              /\ analyze[r].dbError = Some("PostgrestError") => RowsBy(r) = {}

C1_Witness ==
    \E r \in AReqs :
        /\ Done(r) /\ FoodDetected(r)
        /\ analyze[r].analysisResult[1].confidence_score = Num(15)
        /\ analyze[r].dbError = Some("null")
        /\ \E row \in RowsBy(r) : row.analysis_result.confidence_score = 10

\* C2: a finished Analyze request whose validated reply has contains_food =
\* false never called insert and has no row, and its response is 200 with
\* the normalized result.
C2_NoFoodNoRecord ==
    \A r \in AReqs :
        Done(r) /\ NoFoodDetected(r) =>
            /\ analyze[r].calls.insert = 0
            /\ RowsBy(r) = {}
            /\ analyze[r].response = Some(Json(Normalized(r), 200))
            /\ Body(r).contains_food = FALSE

C2_Witness ==
    \E r \in AReqs :
        /\ Done(r) /\ NoFoodDetected(r) /\ Status(r) = 200
        /\ food_analyses # {}

\* C3: an Analyze request whose model call returned (or threw) without a
\* validated reply is answered 500 with contains_food = false, dish_name =
\* "Analysis Failed" and a non-empty error, and has no row.
ModelStepFailed(r) == analyze[r].calls.generateContent = 1 /\ Done(r) /\ ~Validated(r)

C3_ModelFailureIs500 ==
    \A r \in AReqs :
        ModelStepFailed(r) =>
            /\ Status(r) = 500
            /\ Body(r).contains_food = FALSE
            /\ Body(r).dish_name = "Analysis Failed"
            /\ "error" \in DOMAIN Body(r)
            /\ NonEmptyMessage(Body(r).error)
            /\ analyze[r].calls.insert = 0
            /\ RowsBy(r) = {}

C3_Witness ==
    \E r \in AReqs :
        /\ ModelStepFailed(r)
        /\ Includes(Body(r).error, "Unknown AI error")

\* C4: a finished food-detected request is answered 200 with the normalized
\* result and no error field, whatever the insert did: succeeded, returned
\* an error (dbError set) or threw (dbError unset, with or without a row).
C4_PersistenceNeverChangesResponse ==
    \A r \in AReqs :
        Done(r) /\ FoodDetected(r) =>
            /\ analyze[r].response = Some(Json(Normalized(r), 200))
            /\ "error" \notin DOMAIN Body(r)

C4_Witness ==
    \E r \in AReqs :
        /\ Done(r) /\ FoodDetected(r) /\ Status(r) = 200
        /\ analyze[r].dbError = Some("PostgrestError")
        /\ RowsBy(r) = {}

\* a request whose getSession returns an error or no session
Unauthenticated(st) == st.cookie # None /\ st.cookie[1].kind \in {"error", "none"}

\* C5 (as claimed): every finished Analyze request of an unauthenticated
\* caller is answered 401, in every configuration, with no fetch, model call
\* or insert.
C5_UnauthenticatedAlways401 ==
    \A r \in AReqs :
        Done(r) /\ Unauthenticated(analyze[r]) =>
            Status(r) = 401 /\ NoExternalWork(r)

\* C5 (amended): it is answered 401 when the vision-model client is
\* initialized and 503 when it is not, and in both cases no fetch, model
\* call or insert is made for it.
C5_Unauthenticated401Or503 ==
    \A r \in AReqs :
        Done(r) /\ Unauthenticated(analyze[r]) =>
            /\ Status(r) = IF ClientReady THEN 401 ELSE 503
            /\ Body(r).contains_food = FALSE
            /\ NoExternalWork(r)

C5_Witness ==
    \E r \in AReqs :
        /\ Done(r) /\ Unauthenticated(analyze[r]) /\ Status(r) = 401
        /\ analyze[r].calls.getSession = 1

\* C9: an authenticated Analyze request whose image fetch failed is
\* answered 400 with contains_food = false and an error naming the cause
\* ("Failed to fetch image" for a non-2xx status, the timeout for a
\* timeout), has made no model call and has no row; and a model call is
\* only ever made with the bytes of a 2xx image response.
FetchFailed(r) == analyze[r].fetchError # None
NotOkResponse(r) ==
    analyze[r].imageResponse # None /\ ~Ok(analyze[r].imageResponse[1].status)
NotImageResponse(r) ==
    analyze[r].imageResponse # None /\ ~IsImageType(analyze[r].imageResponse[1].contentType)

C9_FetchFailureIs400 ==
    \A r \in AReqs :
        /\ Done(r) /\ FetchFailed(r) =>
              /\ analyze[r].session # None
              /\ Status(r) = 400
              /\ Body(r).contains_food = FALSE
              /\ NonEmptyMessage(Body(r).error)
              /\ analyze[r].fetchError[1].name = "TimeoutError"
                    => Includes(Body(r).error, "Fetching image timed out after ")
              /\ analyze[r].fetchError[1].name # "TimeoutError"
                    => \A i \in 1..Len(analyze[r].fetchError[1].message) :
                          Includes(Body(r).error, analyze[r].fetchError[1].message[i])
        /\ Done(r) /\ (NotOkResponse(r) \/ NotImageResponse(r)) =>
              /\ FetchFailed(r)
              /\ NotOkResponse(r) => Includes(Body(r).error, "Failed to fetch image: ")
              /\ NotOkResponse(r) => Includes(Body(r).error,
                                               ToString(analyze[r].imageResponse[1].status))
        /\ FetchFailed(r) \/ NotOkResponse(r) \/ NotImageResponse(r) =>
              /\ analyze[r].calls.generateContent = 0
              /\ analyze[r].calls.insert = 0
              /\ RowsBy(r) = {}
        /\ analyze[r].calls.generateContent > 0 =>
              /\ analyze[r].imageBuffer # None
              /\ analyze[r].parts =
                    Some([mimeType |-> analyze[r].imageResponse[1].contentType[1],
                          data |-> Base64(analyze[r].imageBuffer[1])])

C9_Witness ==
    \E r \in AReqs :
        /\ Done(r) /\ NotOkResponse(r) /\ Status(r) = 400
        /\ analyze[r].imageResponse[1].status = 404
        /\ \E q \in AReqs : Done(q) /\ FetchFailed(q)
                               /\ analyze[q].fetchError[1].name = "TimeoutError"
                               /\ analyze[q].imageResponse # None

\* C10: when the client is unavailable (no GOOGLE_API_KEY, or the
\* construction failed) every finished Analyze request is answered 503 with
\* contains_food = false and has called no collaborator; and 503 is the
\* answer only then.
C10_Unavailable503 ==
    \A r \in AReqs :
        /\ ~apiKey => ~ClientReady
        /\ Done(r) =>
              /\ Status(r) = 503 <=> ~ClientReady
              /\ ~ClientReady =>
                    /\ Body(r).contains_food = FALSE
                    /\ analyze[r].calls = NoCalls
                    /\ RowsBy(r) = {}

C10_Witness ==
    /\ apiKey /\ ~ClientReady
    /\ \A r \in AReqs : Done(r) /\ Status(r) = 503

\* ---- Upload
UDone(r) == upload[r].pc = "done"
UStatus(r) == upload[r].response[1].status
UBody(r) == upload[r].response[1].body

\* the object store was never called for request r
NoStoreCall(r) == upload[r].calls.upload = 0 /\ upload[r].calls.getSignedUrl = 0

\* C6: every finished Upload request of an unauthenticated caller is
\* answered 401 with success = false, and made no put and no signGet call.
C6_UploadUnauthenticated401 ==
    \A r \in UReqs :
        UDone(r) /\ Unauthenticated(upload[r]) =>
            /\ UStatus(r) = 401
            /\ UBody(r).success = FALSE
            /\ NoStoreCall(r)
            /\ upload[r].fileName = None

C6_Witness ==
    \E r \in UReqs :
        /\ UDone(r) /\ Unauthenticated(upload[r]) /\ UStatus(r) = 401
        /\ upload[r].cookie[1].kind = "error"
        /\ \E q \in UReqs : UDone(q) /\ UStatus(q) = 200

\* C7: every finished authenticated Upload request whose file is larger
\* than 5,242,880 bytes is answered 413 and never called the object store;
\* a file of exactly 5,242,880 bytes is not answered 413.
HasFile(r) == upload[r].session # None /\ upload[r].file # None

C7_TooLargeIs413 ==
    \A r \in UReqs :
        /\ UDone(r) /\ HasFile(r) /\ upload[r].file[1].size > 5242880 =>
              /\ UStatus(r) = 413
              /\ UBody(r).success = FALSE
              /\ NoStoreCall(r)
        /\ UDone(r) /\ HasFile(r) /\ upload[r].file[1].size = 5242880 =>
              UStatus(r) # 413

C7_Witness ==
    \E r, q \in UReqs :
        /\ UDone(r) /\ HasFile(r) /\ upload[r].file[1].size = 5242881 /\ UStatus(r) = 413
        /\ UDone(q) /\ HasFile(q) /\ upload[q].file[1].size = 5242880 /\ UStatus(q) = 200

\* C8: every finished authenticated Upload request whose file is within the
\* size limit and whose type is none of image/jpeg, image/png, image/webp,
\* image/gif is answered 415 and never called the object store.
C8_BadTypeIs415 ==
    \A r \in UReqs :
        /\ UDone(r) /\ HasFile(r)
        /\ upload[r].file[1].size <= 5242880
        /\ upload[r].file[1].type \notin {"image/jpeg", "image/png", "image/webp", "image/gif"}
        => /\ UStatus(r) = 415
           /\ UBody(r).success = FALSE
           /\ NoStoreCall(r)

C8_Witness ==
    \E r \in UReqs :
        /\ UDone(r) /\ HasFile(r) /\ UStatus(r) = 415
        /\ upload[r].file[1].size = 5242880
        /\ upload[r].file[1].type = "application/pdf"

\* ---- Steps 5 to 8 in depth (SpecReply)
\* the object the model's reply was parsed to, before Step 6
RawResult(r) == analyze[r].analysisResult[1]

Answered200(r) == Done(r) /\ Validated(r) /\ Status(r) = 200

\* C11: in every result returned with status 200, confidence_score is
\* present and in [0,1]: a number below 0 has become 0, a number above 1
\* has become 1, a number inside is unchanged, and when the model gave no
\* number it is 0.7 with contains_food true and 0.1 otherwise.
C11_ConfidenceClamped ==
    \A r \in AReqs :
        Answered200(r) =>
            /\ "confidence_score" \in DOMAIN Body(r)
            /\ 0 <= Body(r).confidence_score /\ Body(r).confidence_score <= 10
            /\ RawResult(r).confidence_score.t = "number" =>
                  /\ RawResult(r).confidence_score.n < 0 => Body(r).confidence_score = 0
                  /\ RawResult(r).confidence_score.n > 10 => Body(r).confidence_score = 10
                  /\ RawResult(r).confidence_score.n \in 0..10
                        => Body(r).confidence_score = RawResult(r).confidence_score.n
            /\ RawResult(r).confidence_score.t # "number" =>
                  Body(r).confidence_score = IF Body(r).contains_food THEN 7 ELSE 1

C11_Witness ==
    \E r \in AReqs :
        /\ Answered200(r)
        /\ RawResult(r).confidence_score = Num(-1)
        /\ Body(r).confidence_score = 0

\* C12 (as claimed): in every result returned with status 200, each of
\* dish_name, cuisine, serving_size, cooking_method, ingredients,
\* total_calories, portion_comparison and allergens is present.
C12_NoFieldMissing ==
    \A r \in AReqs :
        Answered200(r) =>
            {"dish_name", "cuisine", "serving_size", "cooking_method", "ingredients",
             "total_calories", "portion_comparison", "allergens"} \subseteq DOMAIN Body(r)

\* C12 (amended): contains_food, dish_name, cuisine, serving_size,
\* ingredients, allergens, macros and confidence_score are always present,
\* the strings non-empty; cooking_method, portion_size, total_calories and
\* portion_comparison are present exactly when the model supplied them, and
\* macros has exactly the members the model supplied.
C12_DefaultedFieldsPresent ==
    \A r \in AReqs :
        Answered200(r) =>
            /\ {"contains_food", "dish_name", "cuisine", "serving_size", "ingredients",
                "allergens", "macros", "confidence_score"} \subseteq DOMAIN Body(r)
            /\ \A k \in {"dish_name", "cuisine", "serving_size"} : Body(r)[k] # ""
            /\ \A k \in {"cooking_method", "portion_size", "total_calories",
                         "portion_comparison"} :
                  k \in DOMAIN Body(r) <=> RawResult(r)[k] # None
            /\ DOMAIN Body(r).macros =
                  IF RawResult(r).macros = None THEN {}
                  ELSE {k \in MacroKeys : RawResult(r).macros[1][k] # None}

C12_Witness ==
    \E r \in AReqs :
        /\ Answered200(r)
        /\ RawResult(r).dish_name = Some("")
        /\ RawResult(r).cuisine = None
        /\ RawResult(r).cooking_method = None
        /\ RawResult(r).total_calories = Some(0)
        /\ Body(r).dish_name = "N/A"
        /\ "cooking_method" \notin DOMAIN Body(r)
        /\ Body(r).total_calories = 0

\* C13: for a validated reply that omits dish_name, cuisine, serving_size,
\* ingredients, allergens and confidence_score, the result has dish_name
\* "Unknown Dish" (contains_food true) or "N/A" (false), cuisine "Unknown",
\* serving_size "N/A", ingredients [], allergens [], confidence_score 0.7 or
\* 0.1, and every field the model supplied with the value it supplied.
OmitsDefaulted(a) ==
    /\ a.dish_name = None /\ a.cuisine = None /\ a.serving_size = None
    /\ a.ingredients = None /\ a.allergens = None
    /\ a.confidence_score = Absent

C13_DefaultsAndPassThrough ==
    \A r \in AReqs :
        Done(r) /\ Validated(r) /\ OmitsDefaulted(RawResult(r)) =>
            /\ Status(r) = 200
            /\ {"dish_name", "cuisine", "serving_size", "ingredients", "allergens",
                "macros", "confidence_score"} \subseteq DOMAIN Body(r)
            /\ Body(r).contains_food = (RawResult(r).contains_food = "true")
            /\ Body(r).dish_name = IF Body(r).contains_food THEN "Unknown Dish" ELSE "N/A"
            /\ Body(r).cuisine = "Unknown"
            /\ Body(r).serving_size = "N/A"
            /\ Body(r).ingredients = <<>>
            /\ Body(r).allergens = <<>>
            /\ Body(r).confidence_score = IF Body(r).contains_food THEN 7 ELSE 1
            /\ \A k \in {"cooking_method", "portion_size", "total_calories",
                         "portion_comparison"} :
                  RawResult(r)[k] # None =>
                      k \in DOMAIN Body(r) /\ Body(r)[k] = RawResult(r)[k][1]
            /\ RawResult(r).macros # None =>
                  \A k \in MacroKeys :
                      RawResult(r).macros[1][k] # None =>
                          /\ k \in DOMAIN Body(r).macros
                          /\ Body(r).macros[k] = RawResult(r).macros[1][k][1]

C13_Witness ==
    \E r \in AReqs :
        /\ Done(r) /\ Status(r) = 200
        /\ RawResult(r) = [EmptyObject EXCEPT !.contains_food = "true",
                                              !.total_calories = Some(450)]
        /\ Body(r).dish_name = "Unknown Dish"
        /\ Body(r).cuisine = "Unknown"
        /\ Body(r).ingredients = <<>>
        /\ Body(r).allergens = <<>>
        /\ Body(r).confidence_score = 7
        /\ Body(r).total_calories = 450

\* C14: Step 6 applied to the finalResult it produced gives that finalResult
\* again, field by field, and so the same response body.
C14_NormalizeIdempotent ==
    \A r \in AReqs :
        analyze[r].finalResult # None /\ renormalized # None =>
            /\ \A k \in DOMAIN renormalized[1] :
                  renormalized[1][k] = analyze[r].finalResult[1][k]
            /\ DOMAIN renormalized[1] = DOMAIN analyze[r].finalResult[1]
            /\ ToJson(renormalized[1]) = Body(r)

C14_Witness ==
    \E r \in AReqs :
        /\ Answered200(r)
        /\ renormalized # None
        /\ RawResult(r).dish_name = None
        /\ RawResult(r).confidence_score = Num(-1)
        /\ renormalized[1].confidence_score = Num(0)
        /\ renormalized[1].dish_name = Some("N/A")

\* C15: the model step fails, with the 500 "Analysis Failed" answer and no
\* insert, when the call throws, the reply has no candidate or no text, the
\* finish reason is set and is neither STOP nor MAX_TOKENS, the stripped
\* text does not start with "{" and end with "}", JSON.parse throws, or
\* contains_food is absent or no boolean; in every other case it succeeds
\* with status 200, whatever other fields the object lacks.
ReplyRejected(o) ==
    \/ o.kind = "throws"
    \/ ~o.candidate
    \/ o.finishReason \notin {"none", "STOP", "MAX_TOKENS"}
    \/ o.text = None
    \/ o.text[1] = <<>>
    \/ LET jsonString == StripFence(o.text[1])
       IN \/ jsonString = <<>>
          \/ Head(jsonString) # "{"
          \/ jsonString[Len(jsonString)] # "}"
          \/ ~JsonParses(jsonString)
          \/ JsonParse(jsonString, o.members).contains_food \notin {"true", "false"}

C15_ModelStepRejects ==
    \A r \in AReqs :
        Done(r) /\ reply # None =>
            IF ReplyRejected(reply[1])
            THEN /\ Status(r) = 500
                 /\ Body(r).contains_food = FALSE
                 /\ Body(r).dish_name = "Analysis Failed"
                 /\ NonEmptyMessage(Body(r).error)
                 /\ analyze[r].calls.insert = 0
            ELSE /\ Status(r) = 200
                 /\ Body(r).contains_food = (reply[1].members.contains_food = "true")

C15_Witness ==
    \E r \in AReqs :
        /\ Done(r) /\ Status(r) = 500
        /\ reply # None
        /\ reply[1].finishReason = "SAFETY"
        /\ reply[1].text = Some(<<"FENCE", "json", "NL", "{", "$", "}", "NL", "FENCE">>)
        /\ reply[1].members.contains_food = "true"

\* ---- Upload: the storage steps
PutFailed(r) == upload[r].s3UploadError # None
SignFailed(r) == upload[r].signingError # None

\* the object request r handed to the store is in the bucket under its key
Stored(r) ==
    /\ upload[r].fileName # None /\ upload[r].buffer # None
    /\ upload[r].fileName[1] \in DOMAIN bucket
    /\ bucket[upload[r].fileName[1]] =
          [Body |-> upload[r].buffer[1], ContentType |-> upload[r].file[1].type]

\* C16: an Upload request whose put failed is answered 500 with success =
\* false, has asked for no signed URL and returns none; one whose signing
\* failed after the put is answered 500 with success = false and no URL,
\* and its object stays in the bucket under its key from then on.
C16_StorageFailureIs500 ==
    \A r \in UReqs :
        /\ PutFailed(r) =>
              /\ UDone(r) /\ UStatus(r) = 500
              /\ UBody(r).success = FALSE
              /\ upload[r].calls.getSignedUrl = 0
              /\ "url" \notin DOMAIN UBody(r)
        /\ SignFailed(r) =>
              /\ UDone(r) /\ UStatus(r) = 500
              /\ UBody(r).success = FALSE
              /\ "url" \notin DOMAIN UBody(r)
              /\ upload[r].calls.upload = 1
              /\ ~PutFailed(r)
              /\ Stored(r)

C16_Witness ==
    \E r, q \in UReqs :
        /\ UDone(r) /\ SignFailed(r) /\ Stored(r) /\ UStatus(r) = 500
        /\ UDone(q) /\ PutFailed(q) /\ UStatus(q) = 500
        /\ \A k \in DOMAIN bucket : k # upload[q].fileName[1]

\* C17: no request calls the image fetch, the model, the insert, the put
\* or the signing more than once; a request whose call failed is finished,
\* so that it makes no further call.
C17_NoRetries ==
    /\ \A r \in AReqs :
          /\ \A op \in {"fetch", "generateContent", "insert"} : analyze[r].calls[op] <= 1
          /\ FetchFailed(r) => Done(r)
          /\ analyze[r].calls.generateContent = 1 /\ analyze[r].pc # "awaitGenerate"
             /\ ~Validated(r) => Done(r)
          /\ analyze[r].dbError = Some("PostgrestError") => Done(r)
    /\ \A r \in UReqs :
          /\ \A op \in {"upload", "getSignedUrl"} : upload[r].calls[op] <= 1
          /\ PutFailed(r) \/ SignFailed(r) => UDone(r)

C17_Witness ==
    \E r \in AReqs, q \in UReqs :
        /\ Done(r) /\ NotOkResponse(r) /\ analyze[r].calls.fetch = 1
        /\ UDone(q) /\ PutFailed(q) /\ upload[q].calls.upload = 1

\* C18 (as claimed): a request suspended on the insert call is answered in
\* the end, even in a behaviour where the insert call never completes.
C18_AnsweredWithoutInsert ==
    \A r \in AReqs : (analyze[r].pc = "awaitInsert") ~> Done(r)

\* C19 (as claimed): two requests that both got an error from getSession
\* and were answered 401 have the same response body, whatever the
\* messages of the two errors (Analyze and Upload alike).
SessionError(st) == st.cookie # None /\ st.cookie[1].kind = "error"

C19_AuthFailureBodiesIdentical ==
    /\ \A r, q \in AReqs :
          /\ Done(r) /\ SessionError(analyze[r]) /\ Status(r) = 401
          /\ Done(q) /\ SessionError(analyze[q]) /\ Status(q) = 401
          => Body(r) = Body(q)
    /\ \A r, q \in UReqs :
          /\ UDone(r) /\ SessionError(upload[r]) /\ UStatus(r) = 401
          /\ UDone(q) /\ SessionError(upload[q]) /\ UStatus(q) = 401
          => UBody(r) = UBody(q)

\* C20 (as claimed): two Upload requests answered 500 after failing at the
\* same step (the put, the signing, or an exception caught by the outer
\* handler) have the same response body, whatever the underlying errors.
OuterCatch(r) ==
    /\ UDone(r) /\ UStatus(r) = 500
    /\ upload[r].cookie[1].kind = "throws" \/ (upload[r].fileName # None /\ upload[r].buffer = None)

C20_InternalErrorBodiesIdentical ==
    \A r, q \in UReqs :
        \/ PutFailed(r) /\ PutFailed(q)
        \/ SignFailed(r) /\ SignFailed(q)
        \/ OuterCatch(r) /\ OuterCatch(q)
        => UBody(r) = UBody(q)

\* ---- Upload: the success response
UploadOk(r) == UDone(r) /\ UStatus(r) = 200

\* C21: every Upload request answered 200 has success = true, s3_key equal
\* to the key under which it put its bytes, and url equal to the signed
\* GET link (with its signature and the 3600-second expiry) for that key;
\* the object the link names is in the bucket and holds exactly the bytes
\* of the file this request received.
C21_UploadedUrlServesOwnBytes ==
    \A r \in UReqs :
        UploadOk(r) =>
            /\ {"success", "s3_key", "url"} \subseteq DOMAIN UBody(r)
            /\ UBody(r).success = TRUE
            /\ upload[r].calls.upload = 1
            /\ UBody(r).s3_key = UploadParams(upload[r]).Key
            /\ UBody(r).url = SignedUrl(UBody(r).s3_key, 3600)
            /\ UBody(r).url.X_Amz_Signature # <<>>
            /\ UBody(r).url.Key \in DOMAIN bucket
            /\ bucket[UBody(r).url.Key].Body = upload[r].file[1].bytes

C21_Witness ==
    \E r, q \in UReqs :
        /\ UploadOk(r) /\ UploadOk(q)
        /\ upload[r].file[1].bytes = "B1" /\ upload[q].file[1].bytes = "B2"
        /\ bucket[UBody(r).url.Key].Body = "B1"
        /\ bucket[UBody(q).url.Key].Body = "B2"

\* ---- Analyze: the shape of every response
FailureNames == {"Analysis Failed", "Analysis Error"}

\* a 200 response is the normalized result, as Step 6 built it
IsNormalizedResult(r) ==
    /\ Validated(r)
    /\ analyze[r].finalResult = Some(Normalize(analyze[r].analysisResult[1]))
    /\ Body(r) = ToJson(analyze[r].finalResult[1])
    /\ "error" \notin DOMAIN Body(r)

\* C22 (as claimed): every Analyze response other than 200 has a status in
\* {400, 401, 500, 503} and a body with contains_food = false, dish_name
\* "Analysis Failed" or "Analysis Error", and an error; every 200 response
\* is a normalized result without an error field.
C22_FailureBodiesNamed ==
    \A r \in AReqs :
        Done(r) =>
            IF Status(r) = 200 THEN IsNormalizedResult(r)
            ELSE /\ Status(r) \in {400, 401, 500, 503}
                 /\ {"contains_food", "dish_name", "error"} \subseteq DOMAIN Body(r)
                 /\ Body(r).contains_food = FALSE
                 /\ Body(r).dish_name \in FailureNames

\* C22 (amended): every Analyze response other than 200 has a status in
\* {400, 401, 500, 503} and a body with contains_food = false and a
\* non-empty error; the body has a dish_name exactly when the status is
\* 500, and it is then "Analysis Failed" or "Analysis Error"; every 200
\* response is a normalized result without an error field.
C22_FailureBodies ==
    \A r \in AReqs :
        Done(r) =>
            IF Status(r) = 200 THEN IsNormalizedResult(r)
            ELSE /\ Status(r) \in {400, 401, 500, 503}
                 /\ {"contains_food", "error"} \subseteq DOMAIN Body(r)
                 /\ Body(r).contains_food = FALSE
                 /\ NonEmptyMessage(Body(r).error)
                 /\ "dish_name" \in DOMAIN Body(r) <=> Status(r) = 500
                 /\ Status(r) = 500 => Body(r).dish_name \in FailureNames

C22_Witness ==
    \E r, q \in AReqs :
        /\ Done(r) /\ Status(r) = 400 /\ "dish_name" \notin DOMAIN Body(r)
        /\ analyze[r].fetchError # None
        /\ Done(q) /\ Status(q) = 500 /\ Body(q).dish_name = "Analysis Error"

\* ---- Upload: the object keys
HasKey(r) == upload[r].fileName # None
WritersOf(k) == {r \in UReqs : HasKey(r) /\ upload[r].fileName[1] = k /\ upload[r].calls.upload = 1}

\* C23: no two Upload requests have the same key, whatever the files they
\* carry; every object in the bucket was written by exactly one request
\* and holds that request's bytes; and the signed URLs of two requests
\* answered 200 name different objects, each the request's own.
C23_KeysNeverReused ==
    /\ \A r, q \in UReqs :
          r # q /\ HasKey(r) /\ HasKey(q) => upload[r].fileName[1] # upload[q].fileName[1]
    /\ \A k \in DOMAIN bucket :
          /\ Cardinality(WritersOf(k)) = 1
          /\ \A r \in WritersOf(k) : bucket[k].Body = upload[r].buffer[1]
    /\ \A r, q \in UReqs :
          r # q /\ UploadOk(r) /\ UploadOk(q) =>
              /\ UBody(r).url.Key # UBody(q).url.Key
              /\ UBody(r).url.Key = upload[r].fileName[1]
              /\ UBody(r).url # UBody(q).url

C23_Witness ==
    \E r, q \in UReqs :
        /\ r # q /\ UploadOk(r) /\ UploadOk(q)
        /\ upload[r].file = upload[q].file
        /\ UBody(r).s3_key # UBody(q).s3_key
        /\ Cardinality(DOMAIN bucket) = 2

\* ---- Analyze: the fetch timeout
TimedOut(r) ==
    /\ Done(r) /\ analyze[r].fetchError # None
    /\ analyze[r].fetchError[1].name = "TimeoutError"

\* C24: an Analyze request whose image fetch timed out, while waiting for
\* the response's head or while reading its body, is answered 400 with
\* the time-out message, and once it is answered the fetch is no longer
\* in flight: the signal given to fetch has aborted it.  The request made
\* one fetch only, so no other fetch of it is left either.
C24_TimedOutFetchCancelled ==
    \A r \in AReqs :
        TimedOut(r) =>
            /\ Status(r) = 400
            /\ "error" \in DOMAIN Body(r)
            /\ Body(r).error = <<"Fetching image timed out after ", "20", " seconds.">>
            /\ analyze[r].calls.fetch = 1
            /\ analyze[r].signal = Some("aborted")
            /\ ~analyze[r].fetching

C24_Witness ==
    \E r, q \in AReqs :
        /\ TimedOut(r) /\ analyze[r].imageResponse = None /\ ~analyze[r].fetching
        /\ TimedOut(q) /\ analyze[q].imageResponse # None /\ ~analyze[q].fetching

\* ---- both endpoints: validation before any external work
\* the body of request r was read and is no JSON, or its imageUrl is
\* missing, empty or no string
InvalidBody(r) ==
    /\ analyze[r].body # None
    /\ \/ analyze[r].body[1].kind = "throws"
       \/ analyze[r].body[1].t \in {"absent", "number"}
       \/ analyze[r].body[1].s = ""

\* the form of request r was parsed and has no `file` field
NoFileField(r) == upload[r].formData # None /\ upload[r].file = None

\* C25: an authenticated Analyze request with an invalid body is answered
\* 400 and has started no image fetch, no model call and no insert; an
\* authenticated Upload request without a `file` field is answered 400
\* "No file provided" and has made no call of the object store.
C25_ValidationFirst ==
    /\ \A r \in AReqs :
          InvalidBody(r) =>
              /\ analyze[r].session # None
              /\ Done(r) /\ Status(r) = 400
              /\ NoExternalWork(r)
              /\ ~analyze[r].fetching
    /\ \A r \in UReqs :
          NoFileField(r) =>
              /\ upload[r].session # None
              /\ UDone(r) /\ UStatus(r) = 400
              /\ "error" \in DOMAIN UBody(r)
              /\ UBody(r).error = <<"No file provided">>
              /\ NoStoreCall(r)
              /\ upload[r].fileName = None
    /\ (\A r \in UReqs : upload[r].calls.upload = 0) => DOMAIN bucket = {}

C25_Witness ==
    \E r \in AReqs, q \in UReqs :
        /\ InvalidBody(r) /\ analyze[r].body[1].t = "string" /\ Status(r) = 400
        /\ NoFileField(q) /\ UStatus(q) = 400

\* ---- Step 5: the code fence
\* text j inside a fence: with the language tag or without it, the fence
\* markers on lines of their own or on the line of j
Fenced(j) ==
    {<<"FENCE", "json", "NL">> \o j \o <<"NL", "FENCE">>,
     <<"FENCE", "NL">> \o j \o <<"NL", "FENCE">>,
     <<"FENCE">> \o j \o <<"FENCE">>}

\* the request has been through the model step with a reply that has text
Replied(r) ==
    /\ analyze[r].calls.generateContent = 1 /\ analyze[r].pc # "awaitGenerate"
    /\ reply # None /\ reply[1].kind = "response" /\ reply[1].text # None

\* the request's locals had the reply's text been j
RepliedAlone(r, j) == AfterGenerate(AwaitingReply(r), [reply[1] EXCEPT !.text = Some(j)])

\* C26: for every text j that is a JSON object, a request whose reply is j
\* inside a fence ends the model step as it would have on the reply j
\* alone: with the same parsed object and the same normalized result, and
\* rejected only if j alone is rejected.
C26_FenceTransparent ==
    \A r \in AReqs :
        Replied(r) =>
            \A j \in Texts(MaxTextLen) :
                JsonParses(j) /\ reply[1].text[1] \in Fenced(j) =>
                    /\ analyze[r].analysisResult = RepliedAlone(r, j).analysisResult
                    /\ analyze[r].finalResult = RepliedAlone(r, j).finalResult
                    /\ ModelStepFailed(r) => RepliedAlone(r, j).pc = "done"

\* ---- the dashboard: the result on show
\* NutritionDisplay is rendered (page.tsx 304-306)
Shown(st) == ~st.isAnalyzing /\ st.analysisResult # None /\ st.imageUrl # None

\* C27: whenever the page shows a result, it is the result of analysing the
\* image the page holds: the result's image is the page's imageUrl.
C27_ResultBelongsToImage ==
    Shown(dashboard) => dashboard.analysisResult[1].of = dashboard.imageUrl[1]

\* ---- every blocking step bounded
\* C28: every Analyze request that has arrived is answered in the end,
\* even when the model call it is suspended on never returns.
C28_EveryInvocationReturns ==
    \A r \in AReqs : (analyze[r].pc # "idle") ~> Done(r)

\* ---- the persisted records
\* row holds the user, the image URL and the result of request r
RecordOf(row, r) ==
    /\ analyze[r].session = Some(row.user_id) /\ row.user_id = Caller(r)
    /\ analyze[r].imageUrl = Some(row.image_url) /\ row.image_url = ImageUrl(r)
    /\ analyze[r].finalResult # None
    /\ row.analysis_result = ToJson(analyze[r].finalResult[1])
    /\ Done(r) => Status(r) = 200 /\ Body(r) = row.analysis_result

\* C29: with Analyze requests of different users interleaved in any way,
\* every row of food_analyses holds the user, the image URL and the
\* result of one and the same request, the result being that request's
\* 200 response; and a row once written stays as it is: every request
\* whose insert reported success still has its row.
C29_RecordsConsistent ==
    /\ \A row \in food_analyses : \E r \in AReqs : RecordOf(row, r)
    /\ \A r \in AReqs :
          analyze[r].dbError = Some("null") =>
              \E row \in food_analyses : RecordOf(row, r)

C29_Witness ==
    \E r, q \in AReqs :
        /\ r # q /\ Done(r) /\ Done(q)
        /\ analyze[r].dbError = Some("null") /\ analyze[q].dbError = Some("null")
        /\ Body(r) # Body(q)
        /\ Cardinality(food_analyses) = 2

\* ---- Upload: the order of the rejections
OverFiveMiB(r) == upload[r].file # None /\ upload[r].file[1].size > 5 * 1024 * 1024
DisallowedType(r) ==
    /\ upload[r].file # None
    /\ upload[r].file[1].type \notin {"image/jpeg", "image/png", "image/webp", "image/gif"}
\* the file passed both tests and was read, and the AWS settings are missing
NoStorageConfig(r) == upload[r].buffer # None /\ ~awsEnv

\* C30: a finished Upload request is rejected by the first check it fails,
\* in the order authentication, missing file, size, content type, storage
\* configuration: without a session it is answered 401 and its form is
\* never read; without a file 400; with a file over 5 MiB 413, whatever
\* its type; with a disallowed type (and a size within the limit) 415;
\* with the AWS settings missing 500, and only after the file passed the
\* other checks.  A request that failed any check has made no call of the
\* object store.
C30_RejectionOrder ==
    \A r \in UReqs :
        UDone(r) =>
            /\ Unauthenticated(upload[r]) => UStatus(r) = 401 /\ upload[r].formData = None
            /\ NoFileField(r) => UStatus(r) = 400
            /\ OverFiveMiB(r) => UStatus(r) = 413
            /\ DisallowedType(r) /\ ~OverFiveMiB(r) => UStatus(r) = 415
            /\ NoStorageConfig(r) =>
                  /\ UStatus(r) = 500
                  /\ "error" \in DOMAIN UBody(r)
                  /\ UBody(r).error = <<"Server configuration error: AWS details missing">>
                  /\ ~OverFiveMiB(r) /\ ~DisallowedType(r)
            /\ \/ Unauthenticated(upload[r]) \/ NoFileField(r) \/ OverFiveMiB(r)
               \/ DisallowedType(r) \/ NoStorageConfig(r)
               => /\ NoStoreCall(r)
                  /\ \A k \in DOMAIN bucket : upload[r].fileName # Some(k)

C30_Witness ==
    \E r, q \in UReqs :
        /\ ~awsEnv
        /\ UDone(r) /\ OverFiveMiB(r) /\ DisallowedType(r) /\ UStatus(r) = 413
        /\ UDone(q) /\ NoStorageConfig(q) /\ UStatus(q) = 500

====
